---- MODULE Spec2Model ----
(***************************************************************************)
(* MongoQueryRunner (src/driver/mongodb/MongoQueryRunner.ts): the adapter  *)
(* state (isReleased, isTransactionActive, session), the transaction       *)
(* triad split at its await points, the pass-through data operations, the  *)
(* two drop operations and the not-supported stubs.  The collaborators     *)
(* (broadcaster, MongoClient, ClientSession, logger) succeed or fail       *)
(* nondeterministically.                                                   *)
(***************************************************************************)
EXTENDS Integers, Sequences, FiniteSets, TLC

\* ------------------------------------------------------------------ bounds
MaxSessions == 2
MaxCalls == 2

\* --------------------------------------------------------------- constants
\* session: ClientSession | undefined -- the undefined reference
None == 0

SessionIds == 1..MaxSessions
Callers == 1..MaxCalls
Collections == {"users", "posts"}

VARIABLES
    enableTransactions,   \* this.options.enableTransactions
    isReleased,           \* this.isReleased
    isTransactionActive,  \* this.isTransactionActive
    session,              \* this.session (None = undefined)
    opened,               \* number of sessions databaseConnection.startSession() returned
    sessions,             \* the ClientSession objects handed out by the client
    calls,                \* the adapter calls in flight, one slot per caller
    last,                 \* the adapter call the latest step settled (IdleCall: none)
    concurrent,           \* whether the caller issues calls without awaiting the previous one
    reentered,            \* whether startTransaction was ever called with the flag already set
    prev                  \* the commit/rollback call settled before the current call began, and
                          \* the adapter state it left (kept only to compare the two methods)

vars == <<enableTransactions, isReleased, isTransactionActive, session,
          opened, sessions, calls, last, concurrent, reentered, prev>>

adapter == <<isReleased, isTransactionActive, session>>

\* ------------------------------------------------------------ collaborators
\* A ClientSession: the transaction on it ("unopened" before startSession
\* returned it, "none" before session.startTransaction) and whether endSession
\* ran.
NewSession == [txn |-> "unopened", ended |-> FALSE]

LiveSessions == {s \in SessionIds : sessions[s].txn # "unopened" /\ ~sessions[s].ended}

\* One adapter call: the method, where it is suspended, the error its promise
\* holds, the first error a collaborator raised inside it, the notifications
\* it broadcast, the client/session calls it made, the session it opened, the
\* session it invoked commit/abort on, the value the client gave it and the
\* value it returned, and the adapter state when it began.
\* The value of a call that returns nothing.
Undefined == <<>>

IdleCall ==
    [op |-> "none", pc |-> "idle", arg |-> "", err |-> "none", failed |-> "none",
     events |-> <<>>, client |-> <<>>, opened |-> None, target |-> None,
     given |-> Undefined, result |-> Undefined,
     preActive |-> FALSE, preSession |-> None, preReleased |-> FALSE]

BeginCall(op, arg) ==
    [IdleCall EXCEPT !.op = op, !.pc = "running", !.arg = arg,
                     !.preActive = isTransactionActive,
                     !.preSession = session,
                     !.preReleased = isReleased]

Quiet == \A c \in Callers : calls[c].pc = "idle"

\* A caller may begin a call on a free slot; a sequential caller awaits the
\* previous call first.
MayBegin(c) == calls[c].pc = "idle" /\ (concurrent \/ Quiet)

\* broadcaster.broadcast(event): the listeners observe the flag and the session
\* as they are at that point, after the client calls the adapter call made so far.
Notify(r, event, active, sess) ==
    [r EXCEPT !.events = Append(@, [name |-> event, active |-> active,
                                    session |-> sess, after |-> Len(r.client)])]
Broadcast(r, event) == Notify(r, event, isTransactionActive, session)
EventNames(r) == [i \in 1..Len(r.events) |-> r.events[i].name]
ClientCall(r, fn, arg, s) == [r EXCEPT !.client = Append(@, [fn |-> fn, arg |-> arg, session |-> s])]
Failed(r, e) == [r EXCEPT !.failed = IF @ = "none" THEN e ELSE @]

\* The call's promise settles: the caller sees the outcome, the slot is free.
Resolve(c, r) ==
    /\ last' = [r EXCEPT !.pc = "resolved"]
    /\ calls' = [calls EXCEPT ![c] = IdleCall]

Reject(c, r, e) ==
    /\ last' = [r EXCEPT !.pc = "rejected", !.err = e]
    /\ calls' = [calls EXCEPT ![c] = IdleCall]

Suspend(c, r, pc) ==
    /\ calls' = [calls EXCEPT ![c] = [r EXCEPT !.pc = pc]]
    /\ last' = IdleCall

\* No earlier commit/rollback call is held for comparison.
NoPrev(kept) ==
    [kept |-> kept, call |-> IdleCall, postActive |-> FALSE, postSession |-> None]

\* When a call begins right after a commit/rollback call settled, that call
\* and the adapter state it left are held for comparison.
Remember ==
    IF prev.kept /\ last.op \in {"commitTransaction", "rollbackTransaction"}
    THEN [kept |-> TRUE, call |-> last,
          postActive |-> isTransactionActive, postSession |-> session]
    ELSE prev

\* --------------------------------------------------------------------- Init
InitAdapter ==
    /\ enableTransactions \in BOOLEAN
    /\ isReleased = FALSE
    /\ isTransactionActive = FALSE
    /\ session = None
    /\ opened = 0
    /\ sessions = [s \in SessionIds |-> NewSession]
    /\ calls = [c \in Callers |-> IdleCall]
    /\ last = IdleCall
    /\ reentered = FALSE

Init == InitAdapter /\ concurrent = FALSE /\ prev = NoPrev(FALSE)

InitConc == InitAdapter /\ concurrent = TRUE /\ prev = NoPrev(FALSE)

InitMirror == InitAdapter /\ concurrent = FALSE /\ prev = NoPrev(TRUE)

\* --------------------------------------------------------- startTransaction
\* Faulty variant: the enableTransactions guard is missing.
TransactionsAlwaysEnabled == TRUE

\* if (!this.options.enableTransactions) return
TransactionsEnabled == enableTransactions

\* startTransaction up to its first await: the guard, the flag, the
\* BeforeTransactionStart broadcast.
startTransaction(c) ==
    /\ MayBegin(c)
    /\ opened + Cardinality({d \in Callers : calls[d].op = "startTransaction"}) < MaxSessions
    /\ LET r == BeginCall("startTransaction", "") IN
       \/ /\ ~TransactionsEnabled
          /\ Resolve(c, r)
          /\ UNCHANGED <<isTransactionActive, reentered>>
       \/ /\ TransactionsEnabled
          /\ reentered' = (reentered \/ isTransactionActive)
          /\ isTransactionActive' = TRUE
          /\ Suspend(c, Notify(r, "BeforeTransactionStart", TRUE, session), "start_before")
    /\ prev' = Remember
    /\ UNCHANGED <<enableTransactions, isReleased, session, opened, sessions, concurrent>>

\* Faulty variant: the catch block leaves the flag set.
StartKeepsActive == TRUE

\* catch (err) { this.isTransactionActive = false; throw err }
StartRevertedActive == FALSE

\* Faulty variant: the new session is not stored when one is already held.
AssignedSessionKeepsOld(id) == IF session # None THEN session ELSE id

\* Faulty variant: the new session is kept in a local only.
AssignedSessionLost(id) == session

\* this.session = this.databaseConnection.startSession()
AssignedSession(id) == id

\* The continuation after `await broadcast("BeforeTransactionStart")`: the
\* catch block, or the executor of the hand-built promise, which runs
\* synchronously: startSession, session.startTransaction, logQuery, ok().
startAfterBefore(c) ==
    /\ calls[c].pc = "start_before"
    /\ LET r == calls[c]
           id == opened + 1
           r1 == ClientCall(r, "startSession", "", None)
           r2 == [ClientCall(r1, "session.startTransaction", "", id) EXCEPT !.opened = id]
       IN
       \/ \* the broadcast failed: flag reverted, error rethrown
          /\ isTransactionActive' = StartRevertedActive
          /\ Reject(c, Failed(r, "BroadcastError"), "BroadcastError")
          /\ UNCHANGED <<session, opened, sessions>>
       \/ \* startSession() throws: this.session is not assigned
          /\ Suspend(c, [Failed(r1, "ClientError") EXCEPT !.err = "ClientError"], "start_promise")
          /\ UNCHANGED <<isTransactionActive, session, opened, sessions>>
       \/ \* session.startTransaction() throws: this.session is already assigned
          /\ session' = AssignedSession(id)
          /\ opened' = id
          /\ sessions' = [sessions EXCEPT ![id].txn = "none"]
          /\ Suspend(c, [Failed(r2, "SessionError") EXCEPT !.err = "SessionError"], "start_promise")
          /\ UNCHANGED isTransactionActive
       \/ \* logQuery("BEGIN TRANSACTION") throws
          /\ session' = AssignedSession(id)
          /\ opened' = id
          /\ sessions' = [sessions EXCEPT ![id].txn = "started"]
          /\ Suspend(c, [Failed(r2, "LoggerError") EXCEPT !.err = "LoggerError"], "start_promise")
          /\ UNCHANGED isTransactionActive
       \/ \* ok()
          /\ session' = AssignedSession(id)
          /\ opened' = id
          /\ sessions' = [sessions EXCEPT ![id].txn = "started"]
          /\ Suspend(c, r2, "start_promise")
          /\ UNCHANGED isTransactionActive
    /\ UNCHANGED <<enableTransactions, isReleased, concurrent, reentered, prev>>

\* Faulty variant: the executor's catch does not call fail(e), so a throw
\* inside it leaves the promise pending.
startAfterPromiseNoFail(c) ==
    /\ calls[c].pc = "start_promise"
    /\ LET r == calls[c] IN
       /\ r.err = "none"
       /\ Suspend(c, Broadcast(r, "AfterTransactionStart"), "start_after")
    /\ UNCHANGED <<enableTransactions, isReleased, isTransactionActive, session,
                   opened, sessions, concurrent, reentered, prev>>

\* The continuation after `await new Promise(...)`: the rejection propagates,
\* or AfterTransactionStart is broadcast.
startAfterPromise(c) ==
    /\ calls[c].pc = "start_promise"
    /\ LET r == calls[c] IN
       \/ /\ r.err # "none"
          /\ Reject(c, r, r.err)
       \/ /\ r.err = "none"
          /\ Suspend(c, Broadcast(r, "AfterTransactionStart"), "start_after")
    /\ UNCHANGED <<enableTransactions, isReleased, isTransactionActive, session,
                   opened, sessions, concurrent, reentered, prev>>

\* Faulty variant: a failed AfterTransactionStart broadcast reverts the flag.
startAfterAfterReverts(c) ==
    /\ calls[c].pc = "start_after"
    /\ LET r == calls[c] IN
       \/ /\ Resolve(c, r)
          /\ UNCHANGED isTransactionActive
       \/ /\ Reject(c, Failed(r, "BroadcastError"), "BroadcastError")
          /\ isTransactionActive' = FALSE
    /\ UNCHANGED <<enableTransactions, isReleased, session,
                   opened, sessions, concurrent, reentered, prev>>

\* The continuation after `await broadcast("AfterTransactionStart")`.
startAfterAfter(c) ==
    /\ calls[c].pc = "start_after"
    /\ LET r == calls[c] IN
       \/ Resolve(c, r)
       \/ Reject(c, Failed(r, "BroadcastError"), "BroadcastError")
    /\ UNCHANGED <<enableTransactions, isReleased, isTransactionActive, session,
                   opened, sessions, concurrent, reentered, prev>>

\* Faulty variant: endSession() is never called.
EndSessionSkipped(ss, s) == ss

\* this.session?.endSession(): the session is ended
EndSession(ss, s) == [ss EXCEPT ![s].ended = TRUE]

\* -------------------------------------------------------- commitTransaction
\* Faulty variant: commitTransaction does not test the flag.
CommitGuardMissing == FALSE

\* if (!this.isTransactionActive) throw new TransactionNotStartedError()
CommitNotStarted == ~isTransactionActive

\* Faulty variant: commitTransaction leaves the flag set.
CommitKeepsActive == TRUE

\* this.isTransactionActive = false
CommitClearedActive == FALSE

\* Faulty variant: commitTransaction keeps the session reference.
CommitKeepsSession == session

\* this.session = undefined
CommitClearedSession == None

\* commitTransaction up to its first await: the two guards and the
\* BeforeTransactionCommit broadcast.
commitTransaction(c) ==
    /\ MayBegin(c)
    /\ LET r == BeginCall("commitTransaction", "") IN
       \/ /\ ~TransactionsEnabled
          /\ Resolve(c, r)
       \/ /\ TransactionsEnabled
          /\ CommitNotStarted
          /\ Reject(c, r, "TransactionNotStartedError")
       \/ /\ TransactionsEnabled
          /\ ~CommitNotStarted
          /\ Suspend(c, Broadcast(r, "BeforeTransactionCommit"), "commit_before")
    /\ prev' = Remember
    /\ UNCHANGED <<enableTransactions, isReleased, isTransactionActive, session,
                   opened, sessions, concurrent, reentered>>

\* The continuation after `await broadcast("BeforeTransactionCommit")`: the
\* executor starts and evaluates `this.session?.commitTransaction()`.
commitAfterBefore(c) ==
    /\ calls[c].pc = "commit_before"
    /\ LET r == calls[c] IN
       \/ Reject(c, Failed(r, "BroadcastError"), "BroadcastError")
       \/ /\ session # None
          /\ Suspend(c, [ClientCall(r, "session.commitTransaction", "", session)
                           EXCEPT !.target = session], "commit_session")
       \/ /\ session = None
          /\ Suspend(c, r, "commit_session")
    /\ UNCHANGED <<enableTransactions, isReleased, isTransactionActive, session,
                   opened, sessions, concurrent, reentered, prev>>

\* The continuation after `await this.session?.commitTransaction()`:
\* endSession on the session the adapter holds now, the two assignments and
\* the AfterTransactionCommit broadcast; any throw goes to fail(e).
commitAfterSession(c) ==
    /\ calls[c].pc = "commit_session"
    /\ LET r == calls[c]
           committed == IF r.target # None
                        THEN [sessions EXCEPT ![r.target].txn = "committed"]
                        ELSE sessions
           r1 == IF session # None
                 THEN ClientCall(r, "session.endSession", "", session)
                 ELSE r
       IN
       \/ \* session.commitTransaction() failed
          /\ r.target # None
          /\ Reject(c, Failed(r, "SessionError"), "SessionError")
          /\ UNCHANGED <<isTransactionActive, session, sessions>>
       \/ \* endSession() throws
          /\ session # None
          /\ sessions' = committed
          /\ Reject(c, Failed(r1, "SessionError"), "SessionError")
          /\ UNCHANGED <<isTransactionActive, session>>
       \/ \* endSession() returned, or there was no session
          /\ sessions' = IF session # None
                         THEN EndSession(committed, session)
                         ELSE committed
          /\ isTransactionActive' = CommitClearedActive
          /\ session' = CommitClearedSession
          /\ Suspend(c, Notify(r1, "AfterTransactionCommit",
                                CommitClearedActive, CommitClearedSession), "commit_after")
    /\ UNCHANGED <<enableTransactions, isReleased, opened, concurrent, reentered, prev>>

\* The continuation after `await broadcast("AfterTransactionCommit")`: ok()
\* and then logQuery("COMMIT"), whose throw reaches fail(e) on a promise that
\* is already resolved.
commitAfterAfter(c) ==
    /\ calls[c].pc = "commit_after"
    /\ LET r == calls[c] IN
       \/ Reject(c, Failed(r, "BroadcastError"), "BroadcastError")
       \/ Resolve(c, r)
       \/ Resolve(c, Failed(r, "LoggerError"))
    /\ UNCHANGED <<enableTransactions, isReleased, isTransactionActive, session,
                   opened, sessions, concurrent, reentered, prev>>

\* ------------------------------------------------------ rollbackTransaction
\* Faulty variant: rollbackTransaction does not test the flag.
RollbackGuardMissing == FALSE

\* if (!this.isTransactionActive) throw new TransactionNotStartedError()
RollbackNotStarted == ~isTransactionActive

\* Faulty variant: rollbackTransaction leaves the flag set.
RollbackKeepsActive == TRUE

\* this.isTransactionActive = false
RollbackClearedActive == FALSE

\* Faulty variant: rollbackTransaction keeps the ended session.
RollbackKeepsSession == session

\* this.session = undefined
RollbackClearedSession == None

rollbackTransaction(c) ==
    /\ MayBegin(c)
    /\ LET r == BeginCall("rollbackTransaction", "") IN
       \/ /\ ~TransactionsEnabled
          /\ Resolve(c, r)
       \/ /\ TransactionsEnabled
          /\ RollbackNotStarted
          /\ Reject(c, r, "TransactionNotStartedError")
       \/ /\ TransactionsEnabled
          /\ ~RollbackNotStarted
          /\ Suspend(c, Broadcast(r, "BeforeTransactionRollback"), "rollback_before")
    /\ prev' = Remember
    /\ UNCHANGED <<enableTransactions, isReleased, isTransactionActive, session,
                   opened, sessions, concurrent, reentered>>

rollbackAfterBefore(c) ==
    /\ calls[c].pc = "rollback_before"
    /\ LET r == calls[c] IN
       \/ Reject(c, Failed(r, "BroadcastError"), "BroadcastError")
       \/ /\ session # None
          /\ Suspend(c, [ClientCall(r, "session.abortTransaction", "", session)
                           EXCEPT !.target = session], "rollback_session")
       \/ /\ session = None
          /\ Suspend(c, r, "rollback_session")
    /\ UNCHANGED <<enableTransactions, isReleased, isTransactionActive, session,
                   opened, sessions, concurrent, reentered, prev>>

rollbackAfterSession(c) ==
    /\ calls[c].pc = "rollback_session"
    /\ LET r == calls[c]
           aborted == IF r.target # None
                      THEN [sessions EXCEPT ![r.target].txn = "aborted"]
                      ELSE sessions
           r1 == IF session # None
                 THEN ClientCall(r, "session.endSession", "", session)
                 ELSE r
       IN
       \/ \* session.abortTransaction() failed
          /\ r.target # None
          /\ Reject(c, Failed(r, "SessionError"), "SessionError")
          /\ UNCHANGED <<isTransactionActive, session, sessions>>
       \/ \* endSession() throws
          /\ session # None
          /\ sessions' = aborted
          /\ Reject(c, Failed(r1, "SessionError"), "SessionError")
          /\ UNCHANGED <<isTransactionActive, session>>
       \/ \* endSession() returned, or there was no session
          /\ sessions' = IF session # None
                         THEN EndSession(aborted, session)
                         ELSE aborted
          /\ isTransactionActive' = RollbackClearedActive
          /\ session' = RollbackClearedSession
          /\ Suspend(c, Notify(r1, "AfterTransactionRollback",
                                RollbackClearedActive, RollbackClearedSession), "rollback_after")
    /\ UNCHANGED <<enableTransactions, isReleased, opened, concurrent, reentered, prev>>

rollbackAfterAfter(c) ==
    /\ calls[c].pc = "rollback_after"
    /\ LET r == calls[c] IN
       \/ Reject(c, Failed(r, "BroadcastError"), "BroadcastError")
       \/ Resolve(c, r)
       \/ Resolve(c, Failed(r, "LoggerError"))
    /\ UNCHANGED <<enableTransactions, isReleased, isTransactionActive, session,
                   opened, sessions, concurrent, reentered, prev>>

\* ------------------------------------------------- pass-through operations
\* Each data operation, the Collection method it calls and whether the
\* options it passes carry `session: this.session`.
PassThroughOps ==
    {
      [op |-> "cursor", fn |-> "find", forwards |-> FALSE],
      [op |-> "aggregate", fn |-> "aggregate", forwards |-> TRUE],
      [op |-> "bulkWrite", fn |-> "bulkWrite", forwards |-> TRUE],
      [op |-> "count", fn |-> "countDocuments", forwards |-> TRUE],
      [op |-> "createCollectionIndex", fn |-> "createIndex", forwards |-> TRUE],
      [op |-> "createCollectionIndexes", fn |-> "createIndexes", forwards |-> FALSE],
      [op |-> "deleteMany", fn |-> "deleteMany", forwards |-> TRUE],
      [op |-> "deleteOne", fn |-> "deleteOne", forwards |-> TRUE],
      [op |-> "distinct", fn |-> "distinct", forwards |-> TRUE],
      [op |-> "dropCollectionIndex", fn |-> "dropIndex", forwards |-> TRUE],
      [op |-> "dropCollectionIndexes", fn |-> "dropIndexes", forwards |-> FALSE],
      [op |-> "findOneAndDelete", fn |-> "findOneAndDelete", forwards |-> TRUE],
      [op |-> "findOneAndReplace", fn |-> "findOneAndReplace", forwards |-> TRUE],
      [op |-> "findOneAndUpdate", fn |-> "findOneAndUpdate", forwards |-> TRUE],
      [op |-> "geoHaystackSearch", fn |-> "geoHaystackSearch", forwards |-> FALSE],
      [op |-> "geoNear", fn |-> "geoNear", forwards |-> FALSE],
      [op |-> "group", fn |-> "group", forwards |-> TRUE],
      [op |-> "collectionIndexes", fn |-> "indexes", forwards |-> FALSE],
      [op |-> "collectionIndexExists", fn |-> "indexExists", forwards |-> FALSE],
      [op |-> "collectionIndexInformation", fn |-> "indexInformation", forwards |-> FALSE],
      [op |-> "initializeOrderedBulkOp", fn |-> "initializeOrderedBulkOp", forwards |-> TRUE],
      [op |-> "initializeUnorderedBulkOp", fn |-> "initializeUnorderedBulkOp", forwards |-> TRUE],
      [op |-> "insertMany", fn |-> "insertMany", forwards |-> TRUE],
      [op |-> "insertOne", fn |-> "insertOne", forwards |-> TRUE],
      [op |-> "isCapped", fn |-> "isCapped", forwards |-> FALSE],
      [op |-> "listCollectionIndexes", fn |-> "listIndexes", forwards |-> TRUE],
      [op |-> "mapReduce", fn |-> "mapReduce", forwards |-> TRUE],
      [op |-> "parallelCollectionScan", fn |-> "parallelCollectionScan", forwards |-> TRUE],
      [op |-> "reIndex", fn |-> "reIndex", forwards |-> FALSE],
      [op |-> "rename", fn |-> "rename", forwards |-> FALSE],
      [op |-> "replaceOne", fn |-> "replaceOne", forwards |-> TRUE],
      [op |-> "stats", fn |-> "stats", forwards |-> FALSE],
      [op |-> "watch", fn |-> "watch", forwards |-> TRUE],
      [op |-> "updateMany", fn |-> "updateMany", forwards |-> TRUE],
      [op |-> "updateOne", fn |-> "updateOne", forwards |-> TRUE]
    }

\* The session the options of the client call carry.
SessionOption(p) == IF p.forwards THEN session ELSE None

\* A call that settles without suspending in the adapter.
Settled(r, e) ==
    IF e = "none"
    THEN [r EXCEPT !.pc = "resolved"]
    ELSE [Failed(r, e) EXCEPT !.pc = "rejected", !.err = e]

\* The value the client returns from fn(arg): what it holds for that request,
\* a different value for each one.
ClientResult(fn, arg) == <<fn, arg>>

\* The call was given v by the client and returns w.
Returning(r, v, w) == [r EXCEPT !.given = v, !.result = w]

\* Faulty variant: the client's result is not returned.
PassThroughResultDropped(v) == Undefined

\* return await this.getCollection(collectionName).<fn>(...)
PassThroughResult(v) == v

\* getCollection(collectionName).<fn>(..., options): the client's result or
\* error is returned as it is.
passThrough(p, coll) ==
    /\ concurrent \/ Quiet
    /\ LET r == ClientCall(BeginCall(p.op, coll), p.fn, coll, SessionOption(p)) IN
       \/ LET v == ClientResult(p.fn, coll) IN
            last' = Settled(Returning(r, v, PassThroughResult(v)), "none")
       \/ last' = Settled(r, "ClientError")
    /\ UNCHANGED <<enableTransactions, isReleased, isTransactionActive, session,
                   opened, sessions, calls, concurrent, reentered, prev>>

\* ------------------------------------------------------- clearDatabase/Table
\* this.connection.driver.database
Database == "database"

\* Faulty variant: the drops are scoped to the active session.
DropInSession == session

\* dropDatabase() and dropCollection(collectionName) are given no options
DropSession == None

\* dropCollection(collectionName)
DropTarget(coll) == coll

\* `await ...dropDatabase()` / `await ...dropCollection(name)` in a method
\* with no return statement: the awaited value is discarded.
DropResult(v) == Undefined

clearDatabase ==
    /\ concurrent \/ Quiet
    /\ LET r == ClientCall(BeginCall("clearDatabase", ""), "dropDatabase", Database, DropSession) IN
       \/ LET v == ClientResult("dropDatabase", Database) IN
            last' = Settled(Returning(r, v, DropResult(v)), "none")
       \/ last' = Settled(r, "ClientError")
    /\ UNCHANGED <<enableTransactions, isReleased, isTransactionActive, session,
                   opened, sessions, calls, concurrent, reentered, prev>>

clearTable(coll) ==
    /\ concurrent \/ Quiet
    /\ LET r == ClientCall(BeginCall("clearTable", coll), "dropCollection", DropTarget(coll), DropSession) IN
       \/ LET v == ClientResult("dropCollection", DropTarget(coll)) IN
            last' = Settled(Returning(r, v, DropResult(v)), "none")
       \/ last' = Settled(r, "ClientError")
    /\ UNCHANGED <<enableTransactions, isReleased, isTransactionActive, session,
                   opened, sessions, calls, concurrent, reentered, prev>>

\* ---------------------------------------------------------- connect/release
\* async connect(): Promise<any> {}
connect ==
    /\ concurrent \/ Quiet
    /\ last' = Settled(BeginCall("connect", ""), "none")
    /\ UNCHANGED <<enableTransactions, isReleased, isTransactionActive, session,
                   opened, sessions, calls, concurrent, reentered, prev>>

\* Faulty variant: release marks the query runner released.
releaseMarksReleased ==
    /\ concurrent \/ Quiet
    /\ last' = Settled(BeginCall("release", ""), "none")
    /\ isReleased' = TRUE
    /\ UNCHANGED <<enableTransactions, isTransactionActive, session,
                   opened, sessions, calls, concurrent, reentered, prev>>

\* async release(): Promise<void> { /* nothing */ }
release ==
    /\ concurrent \/ Quiet
    /\ last' = Settled(BeginCall("release", ""), "none")
    /\ isReleased' = isReleased
    /\ UNCHANGED <<enableTransactions, isTransactionActive, session,
                   opened, sessions, calls, concurrent, reentered, prev>>

\* ------------------------------------------------- not-supported operations
\* Every method whose body is `throw new TypeORMError(message)`.
UnsupportedOps ==
    {
      [op |-> "query", message |-> "Executing SQL query is not supported by MongoDB driver."],
      [op |-> "stream", message |-> "Stream is not supported by MongoDB driver. Use watch instead."],
      [op |-> "getDatabases", message |-> "Schema update queries are not supported by MongoDB driver."],
      [op |-> "getSchemas", message |-> "Schema update queries are not supported by MongoDB driver."],
      [op |-> "getTable", message |-> "Schema update queries are not supported by MongoDB driver."],
      [op |-> "getTables", message |-> "Schema update queries are not supported by MongoDB driver."],
      [op |-> "getView", message |-> "Schema update queries are not supported by MongoDB driver."],
      [op |-> "getViews", message |-> "Schema update queries are not supported by MongoDB driver."],
      [op |-> "hasDatabase", message |-> "Check database queries are not supported by MongoDB driver."],
      [op |-> "getCurrentDatabase", message |-> "Check database queries are not supported by MongoDB driver."],
      [op |-> "hasSchema", message |-> "Check schema queries are not supported by MongoDB driver."],
      [op |-> "getCurrentSchema", message |-> "Check schema queries are not supported by MongoDB driver."],
      [op |-> "hasTable", message |-> "Check schema queries are not supported by MongoDB driver."],
      [op |-> "hasColumn", message |-> "Schema update queries are not supported by MongoDB driver."],
      [op |-> "createDatabase", message |-> "Database create queries are not supported by MongoDB driver."],
      [op |-> "dropDatabase", message |-> "Database drop queries are not supported by MongoDB driver."],
      [op |-> "createSchema", message |-> "Schema create queries are not supported by MongoDB driver."],
      [op |-> "dropSchema", message |-> "Schema drop queries are not supported by MongoDB driver."],
      [op |-> "createTable", message |-> "Schema update queries are not supported by MongoDB driver."],
      [op |-> "dropTable", message |-> "Schema update queries are not supported by MongoDB driver."],
      [op |-> "createView", message |-> "Schema update queries are not supported by MongoDB driver."],
      [op |-> "dropView", message |-> "Schema update queries are not supported by MongoDB driver."],
      [op |-> "renameTable", message |-> "Schema update queries are not supported by MongoDB driver."],
      [op |-> "addColumn", message |-> "Schema update queries are not supported by MongoDB driver."],
      [op |-> "addColumns", message |-> "Schema update queries are not supported by MongoDB driver."],
      [op |-> "renameColumn", message |-> "Schema update queries are not supported by MongoDB driver."],
      [op |-> "changeColumn", message |-> "Schema update queries are not supported by MongoDB driver."],
      [op |-> "changeColumns", message |-> "Schema update queries are not supported by MongoDB driver."],
      [op |-> "dropColumn", message |-> "Schema update queries are not supported by MongoDB driver."],
      [op |-> "dropColumns", message |-> "Schema update queries are not supported by MongoDB driver."],
      [op |-> "createPrimaryKey", message |-> "Schema update queries are not supported by MongoDB driver."],
      [op |-> "updatePrimaryKeys", message |-> "Schema update queries are not supported by MongoDB driver."],
      [op |-> "dropPrimaryKey", message |-> "Schema update queries are not supported by MongoDB driver."],
      [op |-> "createUniqueConstraint", message |-> "Schema update queries are not supported by MongoDB driver."],
      [op |-> "createUniqueConstraints", message |-> "Schema update queries are not supported by MongoDB driver."],
      [op |-> "dropUniqueConstraint", message |-> "Schema update queries are not supported by MongoDB driver."],
      [op |-> "dropUniqueConstraints", message |-> "Schema update queries are not supported by MongoDB driver."],
      [op |-> "createCheckConstraint", message |-> "Schema update queries are not supported by MongoDB driver."],
      [op |-> "createCheckConstraints", message |-> "Schema update queries are not supported by MongoDB driver."],
      [op |-> "dropCheckConstraint", message |-> "Schema update queries are not supported by MongoDB driver."],
      [op |-> "dropCheckConstraints", message |-> "Schema update queries are not supported by MongoDB driver."],
      [op |-> "createExclusionConstraint", message |-> "Schema update queries are not supported by MongoDB driver."],
      [op |-> "createExclusionConstraints", message |-> "Schema update queries are not supported by MongoDB driver."],
      [op |-> "dropExclusionConstraint", message |-> "Schema update queries are not supported by MongoDB driver."],
      [op |-> "dropExclusionConstraints", message |-> "Schema update queries are not supported by MongoDB driver."],
      [op |-> "createForeignKey", message |-> "Schema update queries are not supported by MongoDB driver."],
      [op |-> "createForeignKeys", message |-> "Schema update queries are not supported by MongoDB driver."],
      [op |-> "dropForeignKey", message |-> "Schema update queries are not supported by MongoDB driver."],
      [op |-> "dropForeignKeys", message |-> "Schema update queries are not supported by MongoDB driver."],
      [op |-> "createIndex", message |-> "Schema update queries are not supported by MongoDB driver."],
      [op |-> "createIndices", message |-> "Schema update queries are not supported by MongoDB driver."],
      [op |-> "dropIndex", message |-> "Schema update queries are not supported by MongoDB driver."],
      [op |-> "dropIndices", message |-> "Schema update queries are not supported by MongoDB driver."],
      [op |-> "enableSqlMemory", message |-> "This operation is not supported by MongoDB driver."],
      [op |-> "disableSqlMemory", message |-> "This operation is not supported by MongoDB driver."],
      [op |-> "clearSqlMemory", message |-> "This operation is not supported by MongoDB driver."],
      [op |-> "getMemorySql", message |-> "This operation is not supported by MongoDB driver."],
      [op |-> "executeMemoryUpSql", message |-> "This operation is not supported by MongoDB driver."],
      [op |-> "executeMemoryDownSql", message |-> "This operation is not supported by MongoDB driver."]
    }

\* Faulty variant: dropIndex returns quietly instead of throwing.
UnsupportedButDropIndex(u) ==
    IF u.op = "dropIndex" THEN "none" ELSE "TypeORMError: " \o u.message

\* The outcome of a not-supported method: the error it throws.
UnsupportedError(u) == "TypeORMError: " \o u.message

\* The arguments are ignored.
unsupported(u) ==
    /\ concurrent \/ Quiet
    /\ last' = Settled(BeginCall(u.op, ""), UnsupportedError(u))
    /\ UNCHANGED <<enableTransactions, isReleased, isTransactionActive, session,
                   opened, sessions, calls, concurrent, reentered, prev>>

\* --------------------------------------------------------------------- Next
Next ==
    \/ \E c \in Callers :
        \/ startTransaction(c)
        \/ startAfterBefore(c)
        \/ startAfterPromise(c)
        \/ startAfterAfter(c)
        \/ commitTransaction(c)
        \/ commitAfterBefore(c)
        \/ commitAfterSession(c)
        \/ commitAfterAfter(c)
        \/ rollbackTransaction(c)
        \/ rollbackAfterBefore(c)
        \/ rollbackAfterSession(c)
        \/ rollbackAfterAfter(c)
    \/ \E p \in PassThroughOps, coll \in Collections : passThrough(p, coll)
    \/ clearDatabase
    \/ \E coll \in Collections : clearTable(coll)
    \/ connect
    \/ release
    \/ \E u \in UnsupportedOps : unsupported(u)

\* The transaction triad alone.
NextTriad ==
    \E c \in Callers :
        \/ startTransaction(c)
        \/ startAfterBefore(c)
        \/ startAfterPromise(c)
        \/ startAfterAfter(c)
        \/ commitTransaction(c)
        \/ commitAfterBefore(c)
        \/ commitAfterSession(c)
        \/ commitAfterAfter(c)
        \/ rollbackTransaction(c)
        \/ rollbackAfterBefore(c)
        \/ rollbackAfterSession(c)
        \/ rollbackAfterAfter(c)

\* Calls awaited one at a time.
Spec == Init /\ [][Next]_vars

\* Triad calls issued without awaiting the previous one: they interleave at
\* their await points.
SpecConc == InitConc /\ [][NextTriad]_vars

\* Triad calls awaited one at a time, each commit/rollback call held for
\* comparison with the next one.
SpecMirror == InitMirror /\ [][NextTriad]_vars

\* The step that resumes call c after the collaborator call it awaits has
\* returned or failed.
Resume(c) ==
    \/ startAfterBefore(c)
    \/ startAfterPromise(c)
    \/ startAfterAfter(c)
    \/ commitAfterBefore(c)
    \/ commitAfterSession(c)
    \/ commitAfterAfter(c)
    \/ rollbackAfterBefore(c)
    \/ rollbackAfterSession(c)
    \/ rollbackAfterAfter(c)

\* Interleaved triad calls where every awaited broadcaster, session and
\* logger call eventually returns or fails, so every suspended call is
\* eventually resumed.
SpecFair == InitConc /\ [][NextTriad]_vars /\ \A c \in Callers : WF_vars(Resume(c))

\* ------------------------------------------------------------------- claims
Triad == {"startTransaction", "commitTransaction", "rollbackTransaction"}
PassThroughNames == {p.op : p \in PassThroughOps}
UnsupportedNames == {u.op : u \in UnsupportedOps}
NotSupportedErrors == {"TypeORMError: " \o u.message : u \in UnsupportedOps}

\* C1: with transactions enabled, when startTransaction resolves the flag is
\* true and session is the session that call opened, with a transaction begun
\* on it; when commitTransaction or rollbackTransaction resolves the flag is
\* false and session is undefined.
C1_ResolvedTransactionState ==
    /\ (enableTransactions /\ last.op = "startTransaction" /\ last.pc = "resolved")
        => /\ isTransactionActive
           /\ session # None
           /\ session = last.opened
           /\ sessions[session].txn = "started"
           /\ ~sessions[session].ended
    /\ (enableTransactions /\ last.op \in {"commitTransaction", "rollbackTransaction"}
            /\ last.pc = "resolved")
        => /\ ~isTransactionActive
           /\ session = None

\* A commit has just resolved on the session a start opened.
C1_Witness ==
    /\ last.op = "commitTransaction"
    /\ last.pc = "resolved"
    /\ last.preActive
    /\ last.target # None
    /\ last.target = last.preSession
    /\ sessions[last.target].txn = "committed"
    /\ sessions[last.target].ended

\* C2: whenever no adapter call is in flight, session is defined if and only
\* if isTransactionActive is true.
C2_SessionIffActive ==
    Quiet => ((session # None) <=> isTransactionActive)

\* C3: with transactions enabled, a commitTransaction or rollbackTransaction
\* called with the flag false fails with TransactionNotStartedError, broadcasts
\* nothing, calls no session or client method and leaves flag and session as
\* they were.
C3_NotStartedRejected ==
    (enableTransactions /\ last.op \in {"commitTransaction", "rollbackTransaction"}
        /\ ~last.preActive)
    => /\ last.pc = "rejected"
       /\ last.err = "TransactionNotStartedError"
       /\ last.events = <<>>
       /\ last.client = <<>>
       /\ isTransactionActive = last.preActive
       /\ session = last.preSession

\* A commit was rejected because no transaction was started.
C3_Witness ==
    /\ enableTransactions
    /\ last.op = "commitTransaction"
    /\ ~last.preActive
    /\ last.err = "TransactionNotStartedError"

\* C4: with transactions disabled every startTransaction, commitTransaction
\* and rollbackTransaction resolves at once; the flag stays false, no session
\* is created, nothing is broadcast and the client is not contacted.
C4_DisabledNoOps ==
    ~enableTransactions
    => /\ ~isTransactionActive
       /\ session = None
       /\ opened = 0
       /\ \A s \in SessionIds : sessions[s].txn = "unopened"
       /\ Quiet
       /\ last.op \in Triad
            => /\ last.pc = "resolved"
               /\ last.events = <<>>
               /\ last.client = <<>>
               /\ last.failed = "none"

\* A rollback resolved with transactions disabled.
C4_Witness ==
    /\ ~enableTransactions
    /\ last.op = "rollbackTransaction"
    /\ last.pc = "resolved"

\* C5: every pass-through data operation makes one client call whose options
\* carry the adapter's session as it was at call time, and none when no
\* transaction is active.
C5_ForwardsSession ==
    last.op \in PassThroughNames
    => /\ Len(last.client) = 1
       /\ last.client[1].session = last.preSession
       /\ (~last.preActive => last.client[1].session = None)

\* C6: every schema-definition and SQL-text operation fails with the
\* not-supported error in every adapter state, contacts no client, broadcasts
\* nothing and leaves flag and session unchanged.
C6_UnsupportedRejected ==
    last.op \in UnsupportedNames
    => /\ last.pc = "rejected"
       /\ last.err \in NotSupportedErrors
       /\ last.client = <<>>
       /\ last.events = <<>>
       /\ isTransactionActive = last.preActive
       /\ session = last.preSession

\* dropIndex was called while a transaction was active.
C6_Witness ==
    /\ last.op = "dropIndex"
    /\ last.pc = "rejected"
    /\ last.preActive
    /\ last.preSession # None

\* C7: clearDatabase makes exactly one dropDatabase call and clearTable(name)
\* exactly one dropCollection(name) call, in every transaction state, and
\* neither passes the session.
C7_DropsWithoutSession ==
    /\ last.op = "clearDatabase"
        => last.client = <<[fn |-> "dropDatabase", arg |-> Database, session |-> None]>>
    /\ last.op = "clearTable"
        => last.client = <<[fn |-> "dropCollection", arg |-> last.arg, session |-> None]>>

\* clearTable("posts") ran while a transaction was active.
C7_Witness ==
    /\ last.op = "clearTable"
    /\ last.arg = "posts"
    /\ last.preActive
    /\ last.preSession # None
    /\ session # None

\* C8: whenever a collaborator call made inside an adapter call fails, that
\* adapter call fails with the same error.
C8_NeverSwallows ==
    last.failed # "none" => (last.pc = "rejected" /\ last.err = last.failed)

\* C9: the adapter owns at most one live session (opened and not yet ended).
C9_AtMostOneLive ==
    Cardinality(LiveSessions) <= 1

\* C9 (amended): as long as startTransaction was never called while
\* isTransactionActive was already true, at most one session is live.
C9_AtMostOneLiveUnlessReentered ==
    ~reentered => Cardinality(LiveSessions) <= 1

\* A second session is live after the first was ended, without re-entry.
C9_Witness ==
    /\ ~reentered
    /\ opened = 2
    /\ sessions[1].ended
    /\ LiveSessions = {2}

\* C10: connect and release resolve without contacting anything and leave
\* flag and session unchanged; isReleased is false in every state.
C10_ConnectReleaseNoOps ==
    /\ isReleased = FALSE
    /\ last.op \in {"connect", "release"}
        => /\ last.pc = "resolved"
           /\ last.client = <<>>
           /\ last.events = <<>>
           /\ isTransactionActive = last.preActive
           /\ session = last.preSession

\* release resolved while a transaction was active.
C10_Witness ==
    /\ last.op = "release"
    /\ last.pc = "resolved"
    /\ last.preActive
    /\ session # None

\* C11: when the BeforeTransactionStart broadcast fails, startTransaction
\* fails with that error, the flag is back to false, startSession was never
\* called, no session was opened and AfterTransactionStart was not broadcast.
C11_BeforeStartFailure ==
    (last.op = "startTransaction" /\ last.failed = "BroadcastError"
        /\ Len(last.events) = 1)
    => /\ last.pc = "rejected"
       /\ last.err = "BroadcastError"
       /\ EventNames(last) = <<"BeforeTransactionStart">>
       /\ ~isTransactionActive
       /\ last.client = <<>>
       /\ last.opened = None
       /\ session = last.preSession

\* A start was rejected by its BeforeTransactionStart listeners.
C11_Witness ==
    /\ last.op = "startTransaction"
    /\ last.pc = "rejected"
    /\ last.failed = "BroadcastError"
    /\ Len(last.events) = 1
    /\ ~last.preActive
    /\ opened = 0

\* C12: a failure of startSession or of session.startTransaction inside
\* startTransaction makes the call fail with the flag left true and no
\* session reference held.
C12_StartFailureNoSession ==
    (last.op = "startTransaction" /\ last.failed \in {"ClientError", "SessionError"})
    => /\ last.pc = "rejected"
       /\ isTransactionActive
       /\ session = None

\* C12 (amended): when startSession fails the call fails with the flag left
\* true and session as it was before the call; when session.startTransaction
\* fails the call fails with the flag left true and session holding the
\* session just opened, with no transaction begun on it and not ended.
C12_StartFailureState ==
    /\ (last.op = "startTransaction" /\ last.failed = "ClientError")
        => /\ last.pc = "rejected"
           /\ last.err = "ClientError"
           /\ isTransactionActive
           /\ last.opened = None
           /\ session = last.preSession
    /\ (last.op = "startTransaction" /\ last.failed = "SessionError")
        => /\ last.pc = "rejected"
           /\ last.err = "SessionError"
           /\ isTransactionActive
           /\ last.opened # None
           /\ session = last.opened
           /\ sessions[session].txn = "none"
           /\ ~sessions[session].ended

\* session.startTransaction() threw and the adapter holds the new session.
C12_Witness ==
    /\ last.op = "startTransaction"
    /\ last.pc = "rejected"
    /\ last.failed = "SessionError"
    /\ ~last.preActive
    /\ session # None
    /\ session = last.opened

\* C13: a successful commitTransaction on an active transaction broadcasts
\* BeforeTransactionCommit (listeners see the flag true and the session),
\* then calls session.commitTransaction and session.endSession, clears flag
\* and session, then broadcasts AfterTransactionCommit (listeners see the
\* flag false and no session).
C13_CommitOrder ==
    (last.op = "commitTransaction" /\ last.pc = "resolved"
        /\ last.preActive /\ last.preSession # None)
    => /\ last.client =
            << [fn |-> "session.commitTransaction", arg |-> "", session |-> last.preSession],
               [fn |-> "session.endSession", arg |-> "", session |-> last.preSession] >>
       /\ last.events =
            << [name |-> "BeforeTransactionCommit", active |-> TRUE,
                session |-> last.preSession, after |-> 0],
               [name |-> "AfterTransactionCommit", active |-> FALSE,
                session |-> None, after |-> 2] >>
       /\ ~isTransactionActive
       /\ session = None

\* A commit resolved whose After listeners ran after both session calls.
C13_Witness ==
    /\ last.op = "commitTransaction"
    /\ last.pc = "resolved"
    /\ last.preSession # None
    /\ Len(last.events) = 2
    /\ last.events[2].name = "AfterTransactionCommit"
    /\ last.events[2].after = 2
    /\ ~last.events[2].active

\* C14: whenever commitTransaction or rollbackTransaction fails on an active
\* transaction because a notification, the session commit/abort or
\* endSession failed, the caller gets that failure and flag and session are
\* as they were before the call.
C14_FailureKeepsState ==
    (last.op \in {"commitTransaction", "rollbackTransaction"} /\ last.preActive
        /\ last.failed \in {"BroadcastError", "SessionError"})
    => /\ last.pc = "rejected"
       /\ last.err = last.failed
       /\ isTransactionActive = last.preActive
       /\ session = last.preSession

\* C14 (amended): the caller gets that failure; flag and session are as they
\* were before the call unless it is the After* notification that failed,
\* in which case the flag is already false and session undefined.
C14_FailureState ==
    (last.op \in {"commitTransaction", "rollbackTransaction"} /\ last.preActive
        /\ last.failed \in {"BroadcastError", "SessionError"})
    => /\ last.pc = "rejected"
       /\ last.err = last.failed
       /\ IF Len(last.events) = 2
          THEN ~isTransactionActive /\ session = None
          ELSE isTransactionActive = last.preActive /\ session = last.preSession

\* A rollback was rejected by its AfterTransactionRollback listeners after
\* the session was aborted and ended.
C14_Witness ==
    /\ last.op = "rollbackTransaction"
    /\ last.pc = "rejected"
    /\ last.failed = "BroadcastError"
    /\ Len(last.events) = 2
    /\ last.preSession # None
    /\ sessions[last.preSession].ended
    /\ session = None

\* commit <-> rollback: the names that differ between the two methods.
Mirror(name) ==
    CASE name = "commitTransaction" -> "rollbackTransaction"
      [] name = "rollbackTransaction" -> "commitTransaction"
      [] name = "BeforeTransactionCommit" -> "BeforeTransactionRollback"
      [] name = "BeforeTransactionRollback" -> "BeforeTransactionCommit"
      [] name = "AfterTransactionCommit" -> "AfterTransactionRollback"
      [] name = "AfterTransactionRollback" -> "AfterTransactionCommit"
      [] name = "session.commitTransaction" -> "session.abortTransaction"
      [] name = "session.abortTransaction" -> "session.commitTransaction"
      [] OTHER -> name

\* The call just settled and the held one are a commit and a rollback begun
\* in the same adapter state (flag, session held or not) that met the same
\* pattern of collaborator successes and failures.
MirrorPair ==
    /\ prev.kept
    /\ last.op \in {"commitTransaction", "rollbackTransaction"}
    /\ prev.call.op = Mirror(last.op)
    /\ last.preActive = prev.call.preActive
    /\ (last.preSession = None) = (prev.call.preSession = None)
    /\ last.failed = prev.call.failed
    /\ last.failed \in {"BroadcastError", "SessionError"}
        => /\ Len(last.events) = Len(prev.call.events)
           /\ Len(last.client) = Len(prev.call.client)

\* C15: a commitTransaction and a rollbackTransaction begun in the same
\* adapter state and meeting the same collaborator outcomes end the same way:
\* same outcome and error, same resulting flag and session, the same
\* notifications and session calls up to the Commit/Rollback and
\* commit/abort names.
C15_RollbackMirrorsCommit ==
    MirrorPair
    => /\ last.pc = prev.call.pc
       /\ last.err = prev.call.err
       /\ isTransactionActive = prev.postActive
       /\ (session = None) = (prev.postSession = None)
       /\ (session = last.preSession) = (prev.postSession = prev.call.preSession)
       /\ Len(last.events) = Len(prev.call.events)
       /\ \A i \in 1..Len(last.events) :
            /\ i <= Len(prev.call.events)
            /\ prev.call.events[i].name = Mirror(last.events[i].name)
            /\ prev.call.events[i].active = last.events[i].active
            /\ (prev.call.events[i].session = None) = (last.events[i].session = None)
            /\ prev.call.events[i].after = last.events[i].after
       /\ Len(last.client) = Len(prev.call.client)
       /\ \A i \in 1..Len(last.client) :
            /\ i <= Len(prev.call.client)
            /\ prev.call.client[i].fn = Mirror(last.client[i].fn)
            /\ (prev.call.client[i].session = prev.call.preSession)
                = (last.client[i].session = last.preSession)

\* A rollback resolved on an active transaction after a commit had resolved
\* on an earlier one.
C15_Witness ==
    /\ MirrorPair
    /\ last.op = "rollbackTransaction"
    /\ last.pc = "resolved"
    /\ last.failed = "none"
    /\ last.preActive
    /\ last.preSession # None
    /\ Len(last.client) = 2

\* A session the adapter opened and never ended, that it no longer holds and
\* that no call in flight has invoked commit/abort on.
Abandoned(s) ==
    /\ s \in LiveSessions
    /\ s # session
    /\ \A c \in Callers : calls[c].target # s

\* The call invoked a session method on s.
Contacted(r, s) ==
    \E i \in 1..Len(r.client) :
        /\ r.client[i].session = s
        /\ r.client[i].fn \in {"session.commitTransaction", "session.abortTransaction",
                                "session.endSession"}

\* A startTransaction call that began with the flag set and a session held,
\* and whose startSession() returned, has settled.
ReenteredStart ==
    /\ last.op = "startTransaction"
    /\ last.preActive
    /\ last.preSession # None
    /\ last.opened # None

\* C16: startTransaction called while a transaction is active (flag true,
\* session S1 held) is not turned away: it opens a new session S2 and the
\* adapter holds S2 from then on; S1 is left open, and no call, this one or a
\* later one, invokes commitTransaction, abortTransaction or endSession on it.
C16_ReentrantStartAbandons ==
    /\ [](/\ ReenteredStart
             => /\ session = last.opened
                /\ last.opened # last.preSession
                /\ Abandoned(last.preSession)
                /\ last.err # "TransactionAlreadyStartedError"
                /\ last.failed = "none" => last.pc = "resolved"
          /\ \A s \in SessionIds :
                Abandoned(s)
                => /\ ~Contacted(last, s)
                   /\ \A c \in Callers : ~Contacted(calls[c], s))
    /\ [][\A s \in SessionIds :
            Abandoned(s) => Abandoned(s)' /\ sessions'[s] = sessions[s]]_vars

\* A commit resolved on the second session while the first one, replaced by
\* a reentrant start, is still open with its transaction started.
C16_Witness ==
    /\ reentered
    /\ last.op = "commitTransaction"
    /\ last.pc = "resolved"
    /\ last.preSession # None
    /\ \E s \in SessionIds :
        /\ Abandoned(s)
        /\ s # last.preSession
        /\ sessions[s].txn = "started"

\* A pass-through operation, clearDatabase or clearTable has settled.
DataCall == last.op \in PassThroughNames \cup {"clearDatabase", "clearTable"}

\* The adapter's own fields are as they were when the call began.
FrameKept ==
    /\ isTransactionActive = last.preActive
    /\ session = last.preSession
    /\ isReleased = last.preReleased

\* C17 as stated: pass-through operations, clearDatabase and clearTable leave
\* isTransactionActive, session and isReleased as they were, and the client's
\* result or error is returned unchanged.
C17_ReturnedUnchanged ==
    DataCall
    => /\ FrameKept
       /\ last.pc = "resolved" => last.result = last.given
       /\ last.pc = "rejected" => last.err = last.failed

\* C17: pass-through operations, clearDatabase and clearTable leave
\* isTransactionActive, session and isReleased as they were and propagate the
\* client's error unchanged; a pass-through operation returns the client's
\* result unchanged, clearDatabase and clearTable discard it and resolve with
\* no value.
C17_FrameAndResult ==
    DataCall
    => /\ FrameKept
       /\ last.pc \in {"resolved", "rejected"}
       /\ last.pc = "resolved"
          => /\ last.failed = "none"
             /\ last.given = ClientResult(last.client[1].fn, last.client[1].arg)
             /\ last.result = IF last.op \in PassThroughNames
                              THEN last.given
                              ELSE Undefined
       /\ last.pc = "rejected"
          => /\ last.err = "ClientError"
             /\ last.failed = "ClientError"

\* clearTable resolved inside an active transaction although the client
\* returned a value.
C17_Witness ==
    /\ last.op = "clearTable"
    /\ last.pc = "resolved"
    /\ last.given = ClientResult("dropCollection", "users")
    /\ last.result = Undefined
    /\ last.preActive
    /\ last.preSession # None

\* The calls in flight that have invoked session.commitTransaction or
\* session.abortTransaction on s.
Invokers(s) == {c \in Callers : calls[c].target = s}

\* This step invokes session.commitTransaction or session.abortTransaction
\* on s.
InvokeStep(s) == \E c \in Callers : calls[c].target # s /\ calls'[c].target = s

\* C18 as stated: when commit and rollback calls interleave,
\* session.commitTransaction/abortTransaction is invoked at most once on a
\* session (no two calls have invoked it on the same one) and never after
\* the session was ended.
C18_OnceAndNotAfterEnd ==
    /\ [](\A s \in SessionIds : Cardinality(Invokers(s)) <= 1)
    /\ [][\A s \in SessionIds : InvokeStep(s) => ~sessions[s].ended]_vars

\* C18: when commit and rollback calls interleave,
\* session.commitTransaction/abortTransaction is invoked on the session the
\* adapter holds at that point, which is never one that endSession has ended:
\* the adapter never holds an ended session. (It can be invoked on one
\* session by more than one call.)
C18_NeverAfterEndSession ==
    /\ [](session # None => session \in LiveSessions)
    /\ [][\A s \in SessionIds :
            InvokeStep(s) => s = session /\ s \in LiveSessions]_vars

\* Two interleaved calls both invoked commit/abort on one session, and one
\* of them has gone on to end it.
C18_Witness ==
    \E s \in SessionIds :
        /\ Cardinality(Invokers(s)) = 2
        /\ sessions[s].ended
        /\ \A c \in Invokers(s) : calls[c].op \in {"commitTransaction", "rollbackTransaction"}

\* C19: with transactions enabled, a commitTransaction that resolves has
\* invoked session.commitTransaction and then session.endSession on the
\* session the adapter held (abortTransaction for a rollbackTransaction that
\* resolves); neither resolves without contacting the client.
C19_SuccessContactedClient ==
    /\ enableTransactions
    /\ last.op \in {"commitTransaction", "rollbackTransaction"}
    /\ last.pc = "resolved"
    => /\ last.preSession # None
       /\ Len(last.client) = 2
       /\ last.client[1].fn = (IF last.op = "commitTransaction"
                               THEN "session.commitTransaction"
                               ELSE "session.abortTransaction")
       /\ last.client[1].session = last.preSession
       /\ last.client[2].fn = "session.endSession"
       /\ last.client[2].session = last.preSession

\* A startTransaction call whose AfterTransactionStart broadcast failed has
\* settled.
AfterStartFailed ==
    /\ last.op = "startTransaction"
    /\ last.failed = "BroadcastError"
    /\ Len(last.events) = 2

FinishOps == {"commitTransaction", "rollbackTransaction"}

\* C20: when the AfterTransactionStart broadcast fails, startTransaction
\* rejects with that error and the transaction stays open: the flag is true
\* and the adapter holds the session just opened, its transaction started and
\* the session not ended. A commitTransaction or rollbackTransaction that
\* follows is not turned away and invokes commit/abort on that session.
C20_AfterStartFailureStaysOpen ==
    /\ [](AfterStartFailed
          => /\ last.pc = "rejected"
             /\ last.err = "BroadcastError"
             /\ EventNames(last) = <<"BeforeTransactionStart", "AfterTransactionStart">>
             /\ isTransactionActive
             /\ session # None
             /\ session = last.opened
             /\ sessions[session].txn = "started"
             /\ ~sessions[session].ended)
    /\ [][AfterStartFailed
          => /\ last'.op \notin FinishOps
             /\ \A c \in Callers :
                  calls'[c].op \in FinishOps
                  => /\ calls'[c].pc \in {"commit_before", "rollback_before"}
                     /\ calls'[c].preActive
                     /\ calls'[c].preSession = last.opened]_vars
    /\ [](\A c \in Callers :
            calls[c].pc \in {"commit_session", "rollback_session"}
            => /\ calls[c].target = calls[c].preSession
               /\ calls[c].target = session)

\* startTransaction was rejected by the AfterTransactionStart broadcast and
\* left the session it opened in place.
C20_Witness ==
    /\ AfterStartFailed
    /\ last.pc = "rejected"
    /\ session = last.opened
    /\ session # None

\* C21: when every broadcaster, session and logger call eventually returns
\* or fails, every startTransaction, commitTransaction and
\* rollbackTransaction call eventually settles: no call stays suspended
\* forever, whatever the adapter state and whichever collaborator fails.
C21_EveryCallSettles ==
    \A c \in Callers : (calls[c].pc # "idle") ~> (calls[c].pc = "idle")

\* A startTransaction whose logQuery threw inside the hand-built promise was
\* rejected through fail(e) while another call was suspended.
C21_Witness ==
    /\ last.op = "startTransaction"
    /\ last.pc = "rejected"
    /\ last.err = "LoggerError"
    /\ \E c \in Callers : calls[c].pc # "idle"

====
